---- MODULE Spec2Model ----
(***************************************************************************)
(* ArtCertify: the CID <-> Algorand address codec (CidDecoder), the        *)
(* minting saga (createDocumentCertification), versioned updates           *)
(* (updateCertification), the reserve repointing helper                    *)
(* (updateAssetWithCID), the batched upload (uploadFilesInParallel), the   *)
(* validator (validateCertification), the metadata cache                  *)
(* (getCachedMetadata) and the wallet hook (usePeraWallet).                *)
(***************************************************************************)
EXTENDS Integers, Sequences, FiniteSets, TLC

VARIABLES
  \* --- codec harness: arguments and results of the two CidDecoder calls
  cidArg,          \* CID text handed to fromCidToAddress
  addressArg,      \* address text handed to fromAddressToCid
  toAddress,       \* outcome of fromCidToAddress(cidArg)
  toCid,           \* outcome of fromAddressToCid(addressArg)
  roundTrip,       \* outcome of fromAddressToCid(fromCidToAddress(cidArg))
  \* --- ledger and storage collaborators
  assets,          \* sequence of asset params; the asset id is the index
  pinned,          \* metadata documents stored by uploadJSON, with their CID
  cidForm,         \* the CID form the pinning service is configured to return
  \* --- createDocumentCertification (one call at a time)
  mint,            \* the call's position, locals and the calls it issued
  uploads,         \* per file of the call: "todo", "inflight", "ok", "failed"
  \* --- updateCertification (concurrent calls)
  upd,             \* per call: position, locals and the calls it issued
  history,         \* per asset: the version records committed, oldest first
  \* --- updateAssetWithCID (the reserve update of the saga, run on its own)
  retry,           \* the call's position and locals
  silent,          \* the collaborators have stopped answering
  \* --- getCachedMetadata (concurrent calls)
  metadataCache,   \* per CID: the entry stored, or none
  now,             \* Date.now(), in milliseconds
  getter,          \* per call: position, CID asked for, outcome
  \* --- usePeraWallet (one hook instance over the wallet service)
  wallet,          \* the state of peraWalletService
  hook,            \* the state values of the hook (useState)
  closure,         \* what the callbacks of the last render captured
  life,            \* "new", "mounted" or "unmounted"
  subs,            \* the events the hook's handlers are subscribed to
  pending,         \* per call slot: the service request it awaits, if any
  settled,         \* the hook call that ended last, with its outcome
  \* --- validateCertification harness
  valAsset,        \* what getAssetInfo answers (an asset or a failure)
  valFetch,        \* what fetchMetadata answers
  valResult        \* outcome of validateCertification

codecVars == <<cidArg, addressArg, toAddress, toCid, roundTrip>>
sagaVars  == <<assets, pinned, cidForm, mint, uploads, upd, history, retry, silent>>
valVars   == <<valAsset, valFetch, valResult>>
cacheVars == <<metadataCache, now, getter>>
walletVars == <<wallet, hook, closure, life, subs, pending, settled>>
vars      == <<codecVars, sagaVars, valVars, cacheVars, walletVars>>

(***************************************************************************)
(* Bounds of the model.                                                    *)
(***************************************************************************)
MaxSeed   == 2      \* distinct digests / public keys are numbered 0..MaxSeed
MaxFiles  == 7      \* files handed to one createDocumentCertification call
MaxAssets == 1      \* assets ever created on the ledger
MaxPins   == 3      \* metadata documents ever stored by uploadJSON
NUpdaters == 2      \* updateCertification calls, each free to overlap the others
MaxRetries == 2     \* successful updateAssetWithCID calls that are counted
NGetters  == 2      \* getCachedMetadata calls, each free to overlap the others
MaxTicks  == 2      \* steps the clock advances
NCalls    == 2      \* calls of the wallet hook's functions in progress at once

(***************************************************************************)
(* Byte-level helpers.                                                     *)
(***************************************************************************)
Pow2(n) == 2 ^ n

\* bit j (0 = most significant bit of the first byte) of a byte sequence;
\* bits past the end read as zero (base32 pads the last quantum with zeros)
ByteBit(bytes, j) ==
  IF j \div 8 + 1 > Len(bytes) THEN 0
  ELSE (bytes[j \div 8 + 1] \div Pow2(7 - (j % 8))) % 2

\* bit j of a sequence of 5-bit base32 symbols
SymBit(syms, j) ==
  IF j \div 5 + 1 > Len(syms) THEN 0
  ELSE (syms[j \div 5 + 1] \div Pow2(4 - (j % 5))) % 2

\* RFC 4648 base32 without padding; a text is the sequence of the indices of
\* its characters in the alphabet A-Z2-7
Base32Encode(bytes) ==
  [k \in 1..((Len(bytes) * 8 + 4) \div 5) |->
     16 * ByteBit(bytes, 5 * (k - 1))     + 8 * ByteBit(bytes, 5 * (k - 1) + 1)
    + 4 * ByteBit(bytes, 5 * (k - 1) + 2) + 2 * ByteBit(bytes, 5 * (k - 1) + 3)
    +     ByteBit(bytes, 5 * (k - 1) + 4)]

Base32Decode(syms) ==
  [m \in 1..((Len(syms) * 5) \div 8) |->
     128 * SymBit(syms, 8 * (m - 1))     + 64 * SymBit(syms, 8 * (m - 1) + 1)
    + 32 * SymBit(syms, 8 * (m - 1) + 2) + 16 * SymBit(syms, 8 * (m - 1) + 3)
    +  8 * SymBit(syms, 8 * (m - 1) + 4) +  4 * SymBit(syms, 8 * (m - 1) + 5)
    +  2 * SymBit(syms, 8 * (m - 1) + 6) +      SymBit(syms, 8 * (m - 1) + 7)]

(***************************************************************************)
(* Outcomes: a call returns a value or throws an error.  An error keeps    *)
(* the message chain: `Failed to ...: ${error.message}` prepends a prefix  *)
(* to the message of the error it caught.                                  *)
(***************************************************************************)
Pending     == [st |-> "pending"]
Return(v)   == [st |-> "ok", value |-> v]
Throw(msg)  == [st |-> "throw", message |-> msg]
IsOk(r)     == r.st = "ok"
IsThrow(r)  == r.st = "throw"
Wrap(prefix, r) == IF IsThrow(r) THEN Throw(<<prefix>> \o r.message) ELSE r
\* the innermost message of a thrown error
Cause(r)    == r.message[Len(r.message)]

(***************************************************************************)
(* Multiformats: multihash and CID.                                        *)
(***************************************************************************)
SHA2_256 == 18     \* 0x12
SHA2_512 == 19     \* 0x13
RAW      == 85     \* 0x55
DAG_PB   == 112    \* 0x70
DIGEST_LENGTH == 32

\* the digest numbered `seed`, n bytes long (stands for the hash of a content)
DigestBytes(seed, n) == [i \in 1..n |-> (seed * 53 + i * 17 + 5) % 256]

\* multihash bytes: <hash function code, digest size, digest...>
MultihashBytes(mh) == <<mh.code, mh.size>> \o mh.digest

\* A CID text is its multibase and the bytes that multibase encodes:
\* "base58btc-v0" is the prefix-less CIDv0 form (Qm...), the others are the
\* multibase-prefixed CIDv1 forms (b... = base32, z... = base58btc).
CidText(mb, bytes) == [mb |-> mb, bytes |-> bytes]

\* multiformats Digest.decode: <code, size, digest>, the digest as long as size
DecodeMultihash(bytes) ==
  IF Len(bytes) < 2 \/ Len(bytes) - 2 # bytes[2]
  THEN Throw(<<"Incorrect length">>)
  ELSE Return([code |-> bytes[1], size |-> bytes[2],
               digest |-> SubSeq(bytes, 3, Len(bytes))])

\* multiformats CID.parse
CIDparse(text) ==
  IF text.mb = "base58btc-v0"
  THEN \* CIDv0: a bare sha2-256 multihash, always dag-pb
       IF Len(text.bytes) = 34 /\ text.bytes[1] = SHA2_256 /\ text.bytes[2] = DIGEST_LENGTH
       THEN Return([version |-> 0, code |-> DAG_PB,
                    multihash |-> DecodeMultihash(text.bytes).value])
       ELSE Throw(<<"Invalid CID">>)
  ELSE IF Len(text.bytes) < 2 \/ text.bytes[1] # 1
       THEN Throw(<<"Invalid CID version">>)
       ELSE LET mh == DecodeMultihash(SubSeq(text.bytes, 3, Len(text.bytes)))
            IN  IF IsThrow(mh) THEN mh
                ELSE Return([version |-> 1, code |-> text.bytes[2],
                             multihash |-> mh.value])

\* multiformats CID.createV1(code, multihash)
CIDcreateV1(code, mh) == [version |-> 1, code |-> code, multihash |-> mh]

\* multiformats cid.toString(): base58btc for v0, base32 for v1
CIDtoString(cid) ==
  IF cid.version = 0
  THEN CidText("base58btc-v0", MultihashBytes(cid.multihash))
  ELSE CidText("base32", <<1, cid.code>> \o MultihashBytes(cid.multihash))

(***************************************************************************)
(* algosdk: addresses.                                                     *)
(***************************************************************************)
ALGORAND_ADDRESS_LENGTH == 58
PUBLIC_KEY_LENGTH       == 32
CHECKSUM_LENGTH         == 4

RECURSIVE WeightedSum(_, _, _)
WeightedSum(bytes, i, k) ==
  IF i > Len(bytes) THEN 0
  ELSE ((i + k) * bytes[i] + WeightedSum(bytes, i + 1, k)) % 256

\* the 4 checksum bytes of a public key (algosdk: the last 4 bytes of
\* SHA-512/256 of the key; here a fixed deterministic digest of the key)
Checksum(pk) == [k \in 1..CHECKSUM_LENGTH |-> (WeightedSum(pk, 1, k) + 7 * k) % 256]

\* algosdk.encodeAddress(publicKey)
encodeAddress(pk) == Base32Encode(pk \o Checksum(pk))

\* algosdk.decodeAddress(address)
decodeAddress(address) ==
  IF Len(address) # ALGORAND_ADDRESS_LENGTH
  THEN Throw(<<"MalformedAddress">>)
  ELSE LET decoded == Base32Decode(address)
           pk      == SubSeq(decoded, 1, PUBLIC_KEY_LENGTH)
           cs      == SubSeq(decoded, PUBLIC_KEY_LENGTH + 1, Len(decoded))
       IN  IF Len(decoded) # PUBLIC_KEY_LENGTH + CHECKSUM_LENGTH
           THEN Throw(<<"MalformedAddress">>)
           ELSE IF cs # Checksum(pk)
                THEN Throw(<<"InvalidChecksum">>)
                ELSE Return([publicKey |-> pk, checksum |-> cs])

(***************************************************************************)
(* CidDecoder.                                                             *)
(***************************************************************************)
\* CidDecoder.multihashToAlgorandAddress: only sha2-256 with a 32-byte digest
multihashToAlgorandAddress(mh) ==
  IF mh.code # SHA2_256 \/ mh.size # DIGEST_LENGTH
  THEN Throw(<<"UnsupportedDigest">>)
  ELSE Return(encodeAddress(mh.digest))

\* CidDecoder.algorandAddressToMultihash: the key as a sha2-256 digest
algorandAddressToMultihash(publicKey) ==
  [code |-> SHA2_256, size |-> Len(publicKey), digest |-> publicKey]

fromCidToAddressNoCheck(cid) ==
  LET decoded == CIDparse(cid)
  IN  IF IsThrow(decoded) THEN Wrap("Failed to convert CID to address", decoded)
      ELSE Return(encodeAddress(SubSeq(decoded.value.multihash.digest \o
                                       DigestBytes(0, DIGEST_LENGTH), 1, DIGEST_LENGTH)))

\* CidDecoder.fromCidToAddress
fromCidToAddress(cid) ==
  LET decoded == CIDparse(cid)
  IN  IF IsThrow(decoded) THEN Wrap("Failed to convert CID to address", decoded)
      ELSE Wrap("Failed to convert CID to address",
                multihashToAlgorandAddress(decoded.value.multihash))

fromAddressToCidNoCheck(address) ==
  LET decoded == Base32Decode(address)
  IN  Return(CIDtoString(CIDcreateV1(RAW,
        algorandAddressToMultihash(SubSeq(decoded, 1, PUBLIC_KEY_LENGTH)))))

\* CidDecoder.fromAddressToCid
fromAddressToCid(address) ==
  LET decoded == decodeAddress(address)
  IN  IF IsThrow(decoded) THEN Wrap("Failed to convert address to CID", decoded)
      ELSE Return(CIDtoString(CIDcreateV1(RAW,
                    algorandAddressToMultihash(decoded.value.publicKey))))

(***************************************************************************)
(* Codec harness: the two conversions applied to bounded inputs.           *)
(***************************************************************************)
Sha256Multihash(seed) ==
  [code |-> SHA2_256, size |-> DIGEST_LENGTH, digest |-> DigestBytes(seed, DIGEST_LENGTH)]

\* the CID texts a caller can hand to fromCidToAddress
CidV0(seed)        == CidText("base58btc-v0", MultihashBytes(Sha256Multihash(seed)))
CidV1(mb, code, mh) == CidText(mb, <<1, code>> \o MultihashBytes(mh))

SupportedCids ==
  UNION {{ CidV0(s),
           CidV1("base32", RAW, Sha256Multihash(s)),
           CidV1("base32", DAG_PB, Sha256Multihash(s)),
           CidV1("base58btc", RAW, Sha256Multihash(s)) } : s \in 0..MaxSeed}

UnsupportedCids ==
  UNION {{ CidV1("base32", RAW, [code |-> SHA2_512, size |-> 64, digest |-> DigestBytes(s, 64)]),
           CidV1("base32", RAW, [code |-> SHA2_512, size |-> 32, digest |-> DigestBytes(s, 32)]),
           CidV1("base32", RAW, [code |-> SHA2_256, size |-> 20, digest |-> DigestBytes(s, 20)]),
           CidV1("base32", DAG_PB, [code |-> SHA2_256, size |-> 33, digest |-> DigestBytes(s, 33)]) }
         : s \in 0..MaxSeed}

MalformedCids ==
  { CidText("base32", <<1, RAW, SHA2_256, DIGEST_LENGTH, 7>>),
    CidText("base58btc-v0", <<SHA2_256, 20, 1, 2, 3>>),
    CidText("base32", <<2, RAW, SHA2_256, 0>>) }

CidInputs == SupportedCids \cup UnsupportedCids \cup MalformedCids

\* payload with checksum byte `pos` off by `delta` (pos = 0: intact)
Corrupt(bytes, pos, delta) ==
  [i \in 1..Len(bytes) |-> IF i = pos THEN (bytes[i] + delta) % 256 ELSE bytes[i]]

AddressInputs ==
  UNION {   { encodeAddress(DigestBytes(s, PUBLIC_KEY_LENGTH)) }
       \cup { Base32Encode(Corrupt(DigestBytes(s, PUBLIC_KEY_LENGTH)
                                     \o Checksum(DigestBytes(s, PUBLIC_KEY_LENGTH)), pos, delta))
              : pos \in {1, 17, 33, 34, 35, 36}, delta \in {1, 128} }
       \cup { SubSeq(encodeAddress(DigestBytes(s, PUBLIC_KEY_LENGTH)), 1, ALGORAND_ADDRESS_LENGTH - 1) }
       : s \in 0..MaxSeed }

\* the digest constraint of the codec, read off the CID text itself
HasSha256Digest32(text) ==
  \/ /\ text.mb = "base58btc-v0"
     /\ Len(text.bytes) = 2 + DIGEST_LENGTH
     /\ text.bytes[1] = SHA2_256 /\ text.bytes[2] = DIGEST_LENGTH
  \/ /\ text.mb # "base58btc-v0"
     /\ Len(text.bytes) = 4 + DIGEST_LENGTH
     /\ text.bytes[1] = 1
     /\ text.bytes[3] = SHA2_256 /\ text.bytes[4] = DIGEST_LENGTH

\* a well-formed CID whose multihash is not sha2-256/32
HasOtherDigest(text) ==
  /\ text.mb # "base58btc-v0"
  /\ Len(text.bytes) >= 4 /\ text.bytes[1] = 1
  /\ Len(text.bytes) = 4 + text.bytes[4]
  /\ (text.bytes[3] # SHA2_256 \/ text.bytes[4] # DIGEST_LENGTH)

\* a 58-character address whose trailing 4 bytes are not the checksum of its
\* leading 32 bytes
HasBadChecksum(address) ==
  /\ Len(address) = ALGORAND_ADDRESS_LENGTH
  /\ LET bytes == Base32Decode(address)
     IN  SubSeq(bytes, PUBLIC_KEY_LENGTH + 1, PUBLIC_KEY_LENGTH + CHECKSUM_LENGTH)
           # Checksum(SubSeq(bytes, 1, PUBLIC_KEY_LENGTH))

CallFromCidToAddress ==
  /\ toAddress = Pending
  /\ toAddress' = fromCidToAddress(cidArg)
  /\ UNCHANGED <<cidArg, addressArg, toCid, roundTrip, sagaVars, valVars, cacheVars, walletVars>>

CallFromAddressToCid ==
  /\ toCid = Pending
  /\ toCid' = fromAddressToCid(addressArg)
  /\ UNCHANGED <<cidArg, addressArg, toAddress, roundTrip, sagaVars, valVars, cacheVars, walletVars>>

\* updateAssetWithCID step 3: convert the derived address back
VerifyRoundTrip ==
  /\ IsOk(toAddress)
  /\ roundTrip = Pending
  /\ roundTrip' = fromAddressToCid(toAddress.value)
  /\ UNCHANGED <<cidArg, addressArg, toAddress, toCid, sagaVars, valVars, cacheVars, walletVars>>

CodecIdle ==
  /\ cidArg = CidV0(0)
  /\ addressArg = encodeAddress(DigestBytes(0, PUBLIC_KEY_LENGTH))
  /\ toAddress = Pending /\ toCid = Pending /\ roundTrip = Pending

(***************************************************************************)
(* Ledger collaborator (algorandService).                                  *)
(***************************************************************************)
CreatorKey     == [i \in 1..PUBLIC_KEY_LENGTH |-> (i * 29 + 3) % 256]
OtherKey       == [i \in 1..PUBLIC_KEY_LENGTH |-> (i * 31 + 9) % 256]
creatorAddress == encodeAddress(CreatorKey)
otherAddress   == encodeAddress(OtherKey)

NoCid     == CidText("none", <<>>)
NoAddress == <<>>
NoUrl     == [scheme |-> "none", hash |-> NoCid]
IpfsUrl(hash) == [scheme |-> "ipfs", hash |-> hash]

\* algorandService.createAsset: the new asset gets the next id; the sender
\* of the transaction is its creator
LedgerCreateAsset(as, args) ==
  Append(as, [total |-> args.total, decimals |-> args.decimals,
              creator |-> creatorAddress, manager |-> args.manager,
              reserve |-> args.reserve, freeze |-> args.freeze,
              clawback |-> args.clawback, url |-> args.url])

\* algorandService.updateAssetReserve: an asset configuration transaction
\* replaces the reserve address and nothing else
LedgerUpdateReserve(as, assetId, newReserveAddress) ==
  [as EXCEPT ![assetId].reserve = newReserveAddress]

\* algorandService.getAssetInfo
getAssetInfo(as, assetId) ==
  IF assetId \in DOMAIN as THEN Return(as[assetId])
  ELSE Throw(<<"asset not found">>)

(***************************************************************************)
(* Storage collaborator (ipfsService).                                     *)
(***************************************************************************)
\* the CID forms the pinning service hands out, fixed by its configuration:
\* CIDv0 (Qm..., the default) or CIDv1 with the raw codec
StorageCidForms == {"v0", "v1raw"}

\* the CID of the k-th stored document, in the form the service uses
StorageCid(k, form) ==
  IF form = "v0" THEN CidV0(k) ELSE CidV1("base32", RAW, Sha256Multihash(k))

\* ipfsService.uploadJSON: stores the document under a fresh content hash
\* (every document carries its own timestamp, so no two are equal)
StoreJSON(pins, doc, form) ==
  pins \cup {[cid |-> StorageCid(Cardinality(pins), form), doc |-> doc]}

\* the 32-byte digest a CID text carries
DigestOf(cid) == CIDparse(cid).value.multihash.digest

\* getCurrentVersion(asset): the version recorded in the document the reserve
\* of the asset points at; an asset no update has touched is at version 1
getCurrentVersion(asset, pins) ==
  LET decoded == decodeAddress(asset.reserve)
      anchored == IF IsThrow(decoded) THEN {}
                  ELSE {p \in pins : DigestOf(p.cid) = decoded.value.publicKey}
  IN  IF anchored = {} THEN 1 ELSE (CHOOSE p \in anchored : TRUE).doc.version

(***************************************************************************)
(* createDocumentCertification with uploadCertificationAssets and          *)
(* uploadFilesInParallel.  A step is what runs between two awaits.         *)
(***************************************************************************)
BATCH_SIZE == 3

Files == 1..MaxFiles

Call(op, arg) == [op |-> op, arg |-> arg]

IdleMint ==
  [pc |-> "idle", nFiles |-> 0, i |-> 0, results |-> <<>>,
   metadataHash |-> NoCid, reserveAddress |-> NoAddress, assetId |-> 0,
   calls |-> <<>>, outcome |-> Pending]

NoUploads == [f \in Files |-> "todo"]

\* files.slice(i, i + BATCH_SIZE), files numbered from 1
Batch(i, n) == {f \in 1..n : i < f /\ f <= i + BATCH_SIZE}

RECURSIVE SeqOfRange(_, _)
SeqOfRange(lo, hi) == IF lo > hi THEN <<>> ELSE <<lo>> \o SeqOfRange(lo + 1, hi)

\* lines 739-745: the uploadFile call of a file, tagged with its batch
UploadCall(f, batch) == [op |-> "uploadFile", arg |-> f, batch |-> batch]

\* the uploadFile calls of one batch, in file order
BatchCalls(i, n) ==
  LET hi == IF i + BATCH_SIZE < n THEN i + BATCH_SIZE ELSE n
  IN  [k \in 1..(hi - i) |-> UploadCall(i + k, i \div BATCH_SIZE)]

\* prepareCertificationMetadata: the document uploaded as metadata, reduced to
\* what is read back from it (it carries no version info) and its timestamp
MintMetadata(fileHashes, stamp) ==
  [kind |-> "certification", version |-> 1, previous_cid |-> NoCid,
   timestamp |-> stamp]

\* the arguments of the createAsset call of step 5
CreateAssetArgs(metadataUrl) ==
  [total |-> 1, decimals |-> 0, defaultFrozen |-> FALSE,
   manager |-> creatorAddress, reserve |-> creatorAddress,
   freeze |-> creatorAddress, clawback |-> creatorAddress,
   url |-> metadataUrl]

MintingResultPlaceholder(m, assetId) ==
  [assetId |-> assetId, metadataUrl |-> IpfsUrl(m.metadataHash),
   ipfsHashes |-> [metadata |-> m.metadataHash, files |-> m.results],
   finalReserveAddress |-> creatorAddress]

\* line 175: the MintingResult
MintingResult(m, assetId) ==
  [assetId |-> assetId, metadataUrl |-> IpfsUrl(m.metadataHash),
   ipfsHashes |-> [metadata |-> m.metadataHash, files |-> m.results],
   finalReserveAddress |-> m.reserveAddress]

\* uploadFilesInParallel, entering the loop at index i: launch the next batch,
\* or leave the loop and let uploadCertificationAssets upload the metadata
EnterLoop(m, i) ==
  IF i < m.nFiles
  THEN [m EXCEPT !.pc = "await", !.i = i,
                 !.calls = m.calls \o BatchCalls(i, m.nFiles)]
  ELSE [m EXCEPT !.pc = "json", !.i = i,
                 !.calls = Append(m.calls, Call("uploadJSON", 0))]

LaunchBatch(up, m, i) ==
  [f \in Files |-> IF f \in Batch(i, m.nFiles) THEN "inflight" ELSE up[f]]

MintCallValidatesLate(n, valid) ==
  /\ mint.pc \in {"idle", "done"}
  /\ Len(assets) < MaxAssets
  /\ mint' = IF valid THEN EnterLoop([IdleMint EXCEPT !.nFiles = n], 0)
             ELSE [EnterLoop([IdleMint EXCEPT !.nFiles = n], 0) EXCEPT
                     !.pc = "done", !.outcome = Throw(<<"ValidationError">>)]
  /\ uploads' = LaunchBatch(NoUploads, [IdleMint EXCEPT !.nFiles = n], 0)
  /\ UNCHANGED <<assets, pinned, cidForm, upd, history, retry, silent, codecVars, valVars, cacheVars, walletVars>>

\* the call: validateCertificationData, prepareCertificationData, and the
\* first batch of uploads (or the metadata upload when there is no file)
MintCall(n, valid) ==
  /\ mint.pc \in {"idle", "done"}
  /\ Len(assets) < MaxAssets
  /\ IF ~valid
     THEN /\ mint' = [IdleMint EXCEPT !.pc = "done", !.nFiles = n,
                                      !.outcome = Throw(<<"ValidationError">>)]
          /\ uploads' = NoUploads
     ELSE /\ mint' = EnterLoop([IdleMint EXCEPT !.nFiles = n], 0)
          /\ uploads' = LaunchBatch(NoUploads, [IdleMint EXCEPT !.nFiles = n], 0)
  /\ UNCHANGED <<assets, pinned, cidForm, upd, history, retry, silent, codecVars, valVars, cacheVars, walletVars>>

\* lines 752-754: the pause between two batches
BATCH_DELAY == 500

BatchResolvedAlwaysDelays(m) ==
  LET pushed == [m EXCEPT !.results = m.results \o SeqOfRange(m.i + 1,
                    IF m.i + BATCH_SIZE < m.nFiles THEN m.i + BATCH_SIZE ELSE m.nFiles)]
  IN  IF m.i + BATCH_SIZE <= m.nFiles
      THEN [pushed EXCEPT !.pc = "delay",
                          !.calls = Append(m.calls, Call("setTimeout", BATCH_DELAY))]
      ELSE EnterLoop(pushed, m.i + BATCH_SIZE)

\* Promise.all over a batch whose uploads have all resolved: push the
\* results, then either sleep before the next batch or leave the loop
BatchResolved(m) ==
  LET pushed == [m EXCEPT !.results = m.results \o SeqOfRange(m.i + 1,
                    IF m.i + BATCH_SIZE < m.nFiles THEN m.i + BATCH_SIZE ELSE m.nFiles)]
  IN  IF m.i + BATCH_SIZE < m.nFiles
      THEN [pushed EXCEPT !.pc = "delay",
                          !.calls = Append(m.calls, Call("setTimeout", BATCH_DELAY))]
      ELSE EnterLoop(pushed, m.i + BATCH_SIZE)

BatchSettledAny(up, m) == \E g \in Batch(m.i, m.nFiles) : up[g] = "ok"

\* line 748: Promise.all resolves once every upload of the batch has resolved
BatchSettled(up, m) == \A g \in Batch(m.i, m.nFiles) : up[g] = "ok"

\* ipfsService.uploadFile resolves for file f
UploadResolves(f) ==
  /\ uploads[f] = "inflight"
  /\ uploads' = [uploads EXCEPT ![f] = "ok"]
  /\ mint' = IF mint.pc = "await" /\ BatchSettled(uploads', mint)
             THEN BatchResolved(mint)
             ELSE mint
  /\ UNCHANGED <<assets, pinned, cidForm, upd, history, retry, silent, codecVars, valVars, cacheVars, walletVars>>

BatchRejectionIgnored(m, f) ==
  IF \A g \in Batch(m.i, m.nFiles) \ {f} : uploads[g] \in {"ok", "failed"}
  THEN BatchResolved(m)
  ELSE m

\* Promise.all rejects with the first rejection of the batch
BatchRejected(m, f) ==
  [m EXCEPT !.pc = "done",
            !.outcome = [st |-> "throw", message |-> <<"UploadError">>, file |-> f]]

\* ipfsService.uploadFile rejects for file f; the rejection of Promise.all
\* propagates out of uploadFilesInParallel, uploadCertificationAssets and
\* createDocumentCertification; the siblings still in flight go on
UploadRejects(f) ==
  /\ uploads[f] = "inflight"
  /\ uploads' = [uploads EXCEPT ![f] = "failed"]
  /\ mint' = IF mint.pc = "await" THEN BatchRejected(mint, f) ELSE mint
  /\ UNCHANGED <<assets, pinned, cidForm, upd, history, retry, silent, codecVars, valVars, cacheVars, walletVars>>

\* the 500 ms timer between two batches fires: the loop goes on
DelayElapsed ==
  /\ mint.pc = "delay"
  /\ mint' = EnterLoop(mint, mint.i + BATCH_SIZE)
  /\ uploads' = LaunchBatch(uploads, mint, mint.i + BATCH_SIZE)
  /\ UNCHANGED <<assets, pinned, cidForm, upd, history, retry, silent, codecVars, valVars, cacheVars, walletVars>>

\* steps 4 and 5 after the metadata hash is known: derive the reserve
\* address, then issue createAsset
DeriveAndCreate(m, hash) ==
  LET reserveAddress == fromCidToAddress(hash)
  IN  IF IsThrow(reserveAddress)
      THEN [m EXCEPT !.pc = "done", !.metadataHash = hash, !.outcome = reserveAddress]
      ELSE [m EXCEPT !.pc = "S4", !.metadataHash = hash,
                     !.reserveAddress = reserveAddress.value,
                     !.calls = Append(m.calls, Call("createAsset", 0))]

\* ipfsService.uploadJSON resolves: uploadCertificationAssets returns
MetadataUploaded ==
  /\ mint.pc = "json"
  /\ Cardinality(pinned) < MaxPins
  /\ pinned' = StoreJSON(pinned, MintMetadata(mint.results, Cardinality(pinned)), cidForm)
  /\ mint' = DeriveAndCreate(mint, StorageCid(Cardinality(pinned), cidForm))
  /\ UNCHANGED <<assets, cidForm, uploads, upd, history, retry, silent, codecVars, valVars, cacheVars, walletVars>>

MetadataUploadFails ==
  /\ mint.pc = "json"
  /\ mint' = [mint EXCEPT !.pc = "done", !.outcome = Throw(<<"UploadError">>)]
  /\ UNCHANGED <<assets, pinned, cidForm, uploads, upd, history, retry, silent, codecVars, valVars, cacheVars, walletVars>>

AfterCreateStaleId(m, assetId) ==
  [m EXCEPT !.pc = "S5", !.assetId = assetId,
            !.calls = Append(m.calls, Call("updateAssetReserve", m.assetId))]

\* createAsset resolved with the id of the new asset: issue the reserve update
AfterCreate(m, assetId) ==
  [m EXCEPT !.pc = "S5", !.assetId = assetId,
            !.calls = Append(m.calls, Call("updateAssetReserve", assetId))]

\* algorandService.createAsset commits and resolves
AssetCreated ==
  /\ mint.pc = "S4"
  /\ Len(assets) < MaxAssets
  /\ assets' = LedgerCreateAsset(assets, CreateAssetArgs(IpfsUrl(mint.metadataHash)))
  /\ mint' = AfterCreate(mint, Len(assets'))
  /\ UNCHANGED <<pinned, cidForm, uploads, upd, history, retry, silent, codecVars, valVars, cacheVars, walletVars>>

AssetCreateFails ==
  /\ mint.pc = "S4"
  /\ mint' = [mint EXCEPT !.pc = "done", !.outcome = Throw(<<"AssetCreateError">>)]
  /\ UNCHANGED <<assets, pinned, cidForm, uploads, upd, history, retry, silent, codecVars, valVars, cacheVars, walletVars>>

\* algorandService.updateAssetReserve commits and resolves: line 175
ReserveUpdated ==
  /\ mint.pc = "S5"
  /\ assets' = LedgerUpdateReserve(assets, mint.assetId, mint.reserveAddress)
  /\ mint' = [mint EXCEPT !.pc = "done",
                          !.outcome = Return(MintingResult(mint, mint.assetId))]
  /\ UNCHANGED <<pinned, cidForm, uploads, upd, history, retry, silent, codecVars, valVars, cacheVars, walletVars>>

\* the rejection of updateAssetReserve, as createDocumentCertification
\* lets it out: nothing catches it between line 169 and the caller
ReserveUpdateRejected(m) ==
  [m EXCEPT !.pc = "done", !.outcome = Throw(<<"UpdateReserveError">>)]

ReserveUpdateFails ==
  /\ mint.pc = "S5"
  /\ mint' = ReserveUpdateRejected(mint)
  /\ UNCHANGED <<assets, pinned, cidForm, uploads, upd, history, retry, silent, codecVars, valVars, cacheVars, walletVars>>

(***************************************************************************)
(* updateCertification.                                                    *)
(***************************************************************************)
\* the updateCertification calls
Updaters == 1..NUpdaters

NoAsset == [total |-> 0, decimals |-> 0, creator |-> NoAddress, manager |-> NoAddress,
            reserve |-> NoAddress, freeze |-> NoAddress, clawback |-> NoAddress,
            url |-> NoUrl]

IdleUpd ==
  [pc |-> "idle", assetId |-> 0, asset |-> NoAsset, currentCID |-> NoCid,
   nextVersion |-> 0, hash |-> NoCid, newReserveAddress |-> NoAddress,
   changed |-> FALSE, calls |-> <<>>, outcome |-> Pending]

\* line 553: the call issues getAssetInfo
UpdCall(u, a) ==
  /\ upd[u].pc = "idle"
  /\ Cardinality(pinned) < MaxPins
  /\ upd' = [upd EXCEPT ![u] = [IdleUpd EXCEPT !.pc = "read", !.assetId = a,
                                  !.calls = <<Call("getAssetInfo", a)>>]]
  /\ UNCHANGED <<assets, pinned, cidForm, mint, uploads, history, retry, silent, codecVars, valVars, cacheVars, walletVars>>

\* lines 554-576 once getAssetInfo has answered: decode the reserve, prepare
\* the version info, issue uploadJSON
AfterRead(r, info) ==
  IF IsThrow(info) THEN [r EXCEPT !.pc = "done", !.outcome = info]
  ELSE LET currentCID == fromAddressToCid(info.value.reserve)
       IN  IF IsThrow(currentCID)
           THEN [r EXCEPT !.pc = "done", !.asset = info.value, !.outcome = currentCID]
           ELSE [r EXCEPT !.pc = "upload", !.asset = info.value,
                          !.currentCID = currentCID.value,
                          !.nextVersion = getCurrentVersion(info.value, pinned) + 1,
                          !.calls = Append(r.calls, Call("uploadJSON", 0))]

UpdRead(u) ==
  /\ upd[u].pc = "read"
  /\ upd' = [upd EXCEPT ![u] = AfterRead(upd[u], getAssetInfo(assets, upd[u].assetId))]
  /\ UNCHANGED <<assets, pinned, cidForm, mint, uploads, history, retry, silent, codecVars, valVars, cacheVars, walletVars>>

\* lines 569-574: the metadata of the new version
UpdateMetadata(r, stamp) ==
  [kind |-> "update", version |-> r.nextVersion,
   previous_cid |-> r.currentCID, timestamp |-> stamp]

\* lines 577-585 once uploadJSON has answered: derive the new reserve address
\* and issue updateAssetReserve; `changed` records whether the reserve on the
\* ledger still is the one read at line 553
AfterUpload(r, hash) ==
  LET newReserveAddress == fromCidToAddress(hash)
  IN  IF IsThrow(newReserveAddress)
      THEN [r EXCEPT !.pc = "done", !.hash = hash, !.outcome = newReserveAddress]
      ELSE [r EXCEPT !.pc = "write", !.hash = hash,
                     !.newReserveAddress = newReserveAddress.value,
                     !.changed = (assets[r.assetId].reserve # r.asset.reserve),
                     !.calls = Append(r.calls, Call("updateAssetReserve", r.assetId))]

UpdUploaded(u) ==
  /\ upd[u].pc = "upload"
  /\ Cardinality(pinned) < MaxPins
  /\ pinned' = StoreJSON(pinned, UpdateMetadata(upd[u], Cardinality(pinned)), cidForm)
  /\ upd' = [upd EXCEPT ![u] = AfterUpload(upd[u], StorageCid(Cardinality(pinned), cidForm))]
  /\ UNCHANGED <<assets, cidForm, mint, uploads, history, retry, silent, codecVars, valVars, cacheVars, walletVars>>

UpdUploadFails(u) ==
  /\ upd[u].pc = "upload"
  /\ upd' = [upd EXCEPT ![u] = [upd[u] EXCEPT !.pc = "done",
                                   !.outcome = Throw(<<"UploadError">>)]]
  /\ UNCHANGED <<assets, pinned, cidForm, mint, uploads, history, retry, silent, codecVars, valVars, cacheVars, walletVars>>

\* the version record a committed update leaves behind
VersionRecord(r) ==
  [version |-> r.nextVersion, cid |-> r.hash, previous_cid |-> r.currentCID,
   previousReserve |-> r.asset.reserve, reserveAddress |-> r.newReserveAddress]

UpdWrittenRemints(u) ==
  /\ upd[u].pc = "write"
  /\ assets' = LedgerCreateAsset(assets,
                 [CreateAssetArgs(IpfsUrl(upd[u].hash)) EXCEPT
                    !.reserve = upd[u].newReserveAddress])
  /\ history' = [history EXCEPT ![upd[u].assetId] = Append(@, VersionRecord(upd[u]))]
  /\ upd' = [upd EXCEPT ![u] = [upd[u] EXCEPT !.pc = "done",
                !.outcome = Return([assetId |-> upd[u].assetId,
                                    reserve |-> upd[u].newReserveAddress])]]
  /\ UNCHANGED <<pinned, cidForm, mint, uploads, retry, silent, codecVars, valVars, cacheVars, walletVars>>

\* algorandService.updateAssetReserve commits and resolves: line 580 returns
UpdWritten(u) ==
  /\ upd[u].pc = "write"
  /\ assets' = LedgerUpdateReserve(assets, upd[u].assetId, upd[u].newReserveAddress)
  /\ history' = [history EXCEPT ![upd[u].assetId] = Append(@, VersionRecord(upd[u]))]
  /\ upd' = [upd EXCEPT ![u] = [upd[u] EXCEPT !.pc = "done",
                !.outcome = Return([assetId |-> upd[u].assetId,
                                    reserve |-> upd[u].newReserveAddress])]]
  /\ UNCHANGED <<pinned, cidForm, mint, uploads, retry, silent, codecVars, valVars, cacheVars, walletVars>>

UpdWriteFails(u) ==
  /\ upd[u].pc = "write"
  /\ upd' = [upd EXCEPT ![u] = [upd[u] EXCEPT !.pc = "done",
                                   !.outcome = Throw(<<"UpdateReserveError">>)]]
  /\ UNCHANGED <<assets, pinned, cidForm, mint, uploads, history, retry, silent, codecVars, valVars, cacheVars, walletVars>>

(***************************************************************************)
(* updateAssetWithCID: the reserve update of the saga, run on its own.     *)
(***************************************************************************)
IdleRetry ==
  [pc |-> "idle", assetId |-> 0, metadataCID |-> NoCid, reserveAddress |-> NoAddress,
   count |-> 0, verified |-> FALSE, outcome |-> Pending]

UpdateParamsPlaceholder(assetId, reserveAddress, metadataCID) ==
  [assetId |-> assetId, newReserveAddress |-> creatorAddress,
   metadataUrl |-> IpfsUrl(metadataCID)]

\* lines 449-454: the parameters of the updateAssetReserve call
UpdateParams(assetId, reserveAddress, metadataCID) ==
  [assetId |-> assetId, newReserveAddress |-> reserveAddress,
   metadataUrl |-> IpfsUrl(metadataCID)]

\* lines 444-456: derive the address and issue updateAssetReserve.  The call
\* is made with the inputs step 6 of the saga had: the asset and the
\* metadata CID its URL names.
RetryCall(a) ==
  /\ retry.pc \in {"idle", "done"}
  /\ a \in DOMAIN assets
  /\ LET metadataCID == assets[a].url.hash
         reserveAddress == fromCidToAddress(metadataCID)
         count == IF retry.assetId = a THEN retry.count ELSE 0
     IN  retry' = IF IsThrow(reserveAddress)
                  THEN [IdleRetry EXCEPT !.pc = "done", !.assetId = a,
                                         !.metadataCID = metadataCID, !.count = count,
                                         !.outcome = reserveAddress]
                  ELSE [IdleRetry EXCEPT !.pc = "write", !.assetId = a,
                                         !.metadataCID = metadataCID, !.count = count,
                                         !.reserveAddress = reserveAddress.value]
  /\ UNCHANGED <<assets, pinned, cidForm, mint, uploads, upd, history, silent, codecVars, valVars, cacheVars, walletVars>>

\* lines 456-462: updateAssetReserve commits and resolves, the conversion is
\* checked backwards and the result returned
RetryWritten ==
  /\ retry.pc = "write"
  /\ LET params == UpdateParams(retry.assetId, retry.reserveAddress, retry.metadataCID)
     IN  assets' = LedgerUpdateReserve(assets, params.assetId, params.newReserveAddress)
  /\ retry' = [retry EXCEPT !.pc = "done",
                 !.count = IF retry.count < MaxRetries THEN retry.count + 1 ELSE retry.count,
                 !.verified = (fromAddressToCid(retry.reserveAddress) = Return(retry.metadataCID)),
                 !.outcome = Return([assetId |-> retry.assetId])]
  /\ UNCHANGED <<pinned, cidForm, mint, uploads, upd, history, silent, codecVars, valVars, cacheVars, walletVars>>

RetryWriteFails ==
  /\ retry.pc = "write"
  /\ retry' = [retry EXCEPT !.pc = "done", !.outcome = Throw(<<"UpdateReserveError">>)]
  /\ UNCHANGED <<assets, pinned, cidForm, mint, uploads, upd, history, silent, codecVars, valVars, cacheVars, walletVars>>

(***************************************************************************)
(* validateCertification.  An entry of errors or warnings is a message     *)
(* chain, like the message of an error.                                    *)
(***************************************************************************)
Null == [st |-> "null"]

SoulboundErrorsNoClawback(asset) ==
  IF asset.total # 1 THEN << <<"Asset should have total supply = 1">> >> ELSE <<>>

\* lines 617-623: the soulbound checks
SoulboundErrors(asset) ==
     (IF asset.total # 1
      THEN << <<"Asset should have total supply = 1">> >> ELSE <<>>)
  \o (IF asset.clawback # asset.creator
      THEN << <<"Asset should have clawback = creator">> >> ELSE <<>>)

ConversionCheckSilentCatch(asset) ==
  LET originalCID      == fromAddressToCid(asset.reserve)
      convertedAddress == IF IsThrow(originalCID) THEN originalCID
                          ELSE fromCidToAddress(originalCID.value)
  IN  IF IsThrow(convertedAddress)
      THEN [cidInfo |-> [isValidCID |-> FALSE, conversionMatch |-> FALSE,
                         originalCID |-> NoCid, convertedAddress |-> NoAddress],
            errors  |-> <<>>]
      ELSE [cidInfo |-> [isValidCID |-> TRUE,
                         conversionMatch |-> (convertedAddress.value = asset.reserve),
                         originalCID |-> originalCID.value,
                         convertedAddress |-> convertedAddress.value],
            errors  |-> IF convertedAddress.value = asset.reserve THEN <<>>
                        ELSE << <<"CID <-> Address conversion mismatch">> >>]

\* lines 626-649: reserve address -> CID -> address, with its own try/catch
ConversionCheck(asset) ==
  LET originalCID      == fromAddressToCid(asset.reserve)
      convertedAddress == IF IsThrow(originalCID) THEN originalCID
                          ELSE fromCidToAddress(originalCID.value)
  IN  IF IsThrow(convertedAddress)
      THEN [cidInfo |-> [isValidCID |-> FALSE, conversionMatch |-> FALSE,
                         originalCID |-> NoCid, convertedAddress |-> NoAddress],
            errors  |-> << <<"Invalid CID conversion">> \o convertedAddress.message >>]
      ELSE [cidInfo |-> [isValidCID |-> TRUE,
                         conversionMatch |-> (convertedAddress.value = asset.reserve),
                         originalCID |-> originalCID.value,
                         convertedAddress |-> convertedAddress.value],
            errors  |-> IF convertedAddress.value = asset.reserve THEN <<>>
                        ELSE << <<"CID <-> Address conversion mismatch">> >>]

\* lines 652-665: the metadata document behind the URL, with its own
\* try/catch; reading a field of a null document throws inside the try
MetadataCheck(asset, fetch) ==
  IF asset.url.scheme # "ipfs"
  THEN [metadataInfo |-> Null, warnings |-> <<>>,
        errors |-> << <<"Asset URL should be IPFS URL">> >>]
  ELSE IF IsThrow(fetch)
  THEN [metadataInfo |-> Null, warnings |-> <<>>,
        errors |-> << <<"Failed to fetch IPFS metadata">> \o fetch.message >>]
  ELSE IF fetch.value = Null
  THEN [metadataInfo |-> Null, warnings |-> <<>>,
        errors |-> << <<"Failed to fetch IPFS metadata", "TypeError">> >>]
  ELSE [metadataInfo |-> fetch.value,
        warnings |-> (IF fetch.value.name = "" THEN << <<"Missing metadata name">> >> ELSE <<>>)
                  \o (IF fetch.value.description = ""
                      THEN << <<"Missing metadata description">> >> ELSE <<>>),
        errors |-> <<>>]

\* lines 612-674: the body of the outer try; it throws what getAssetInfo throws
ValidationBody(lookup, fetch) ==
  IF IsThrow(lookup) THEN lookup
  ELSE LET asset  == lookup.value
           conv   == ConversionCheck(asset)
           meta   == MetadataCheck(asset, fetch)
           errors == SoulboundErrors(asset) \o conv.errors \o meta.errors
       IN  Return([isValid |-> (Len(errors) = 0), errors |-> errors,
                   warnings |-> meta.warnings, assetInfo |-> asset,
                   metadataInfo |-> meta.metadataInfo, cidInfo |-> conv.cidInfo])

validateCertificationNoCatch(lookup, fetch) == ValidationBody(lookup, fetch)

\* lines 608-686: the outer catch turns a thrown error into a result
validateCertification(lookup, fetch) ==
  LET body == ValidationBody(lookup, fetch)
  IN  IF IsThrow(body)
      THEN Return([isValid |-> FALSE,
                   errors |-> << <<"Failed to validate asset">> \o body.message >>,
                   warnings |-> <<>>, assetInfo |-> Null,
                   metadataInfo |-> Null, cidInfo |-> Null])
      ELSE body

\* the assets getAssetInfo can answer with: minted here or foreign
ValidatedAssets ==
  { [total |-> t, decimals |-> d, creator |-> creatorAddress, manager |-> creatorAddress,
     reserve |-> r, freeze |-> creatorAddress, clawback |-> c, url |-> u]
    : t \in {0, 1, 2}, d \in {0, 2},
      r \in { creatorAddress,
              encodeAddress(DigestBytes(0, DIGEST_LENGTH)),
              Base32Encode(Corrupt(DigestBytes(0, PUBLIC_KEY_LENGTH)
                             \o Checksum(DigestBytes(0, PUBLIC_KEY_LENGTH)), 34, 1)),
              NoAddress },
      c \in {creatorAddress, otherAddress, NoAddress},
      u \in {IpfsUrl(CidV0(0)), IpfsUrl(CidV1("base32", RAW, Sha256Multihash(0))),
             [scheme |-> "https", hash |-> NoCid], NoUrl} }

LookupAnswers == {Throw(<<"asset not found">>)} \cup {Return(a) : a \in ValidatedAssets}

FetchAnswers ==
  { Throw(<<"NotFound">>), Return(Null),
    Return([name |-> "Certificazione", description |-> "Documento"]),
    Return([name |-> "", description |-> "Documento"]),
    Return([name |-> "Certificazione", description |-> ""]) }

CallValidate ==
  /\ valResult = Pending
  /\ valResult' = validateCertification(valAsset, valFetch)
  /\ UNCHANGED <<valAsset, valFetch, codecVars, sagaVars, cacheVars, walletVars>>

\* start values of the validator harness when it is not in use
ValIdle ==
  /\ valAsset = Throw(<<"asset not found">>)
  /\ valFetch = Throw(<<"NotFound">>)
  /\ valResult = Pending

SagaIdle ==
  /\ assets = <<>>
  /\ pinned = {}
  /\ cidForm \in StorageCidForms
  /\ mint = IdleMint
  /\ uploads = NoUploads
  /\ upd = [u \in Updaters |-> IdleUpd]
  /\ history = [a \in 1..MaxAssets |-> <<>>]
  /\ retry = IdleRetry
  /\ silent = FALSE

(***************************************************************************)
(* getCachedMetadata: the read-through cache in front of                   *)
(* ipfsService.fetchMetadata.  A step is what runs between two awaits.     *)
(***************************************************************************)
CACHE_TTL == 5 * 60 * 1000

\* the clock advances in steps of half the time to live
ClockStep == CACHE_TTL \div 2

\* the getCachedMetadata calls
Getters == 1..NGetters

\* the documents the storage holds: PublishedDocs documents, stored in turn
PublishedDocs == 2

RECURSIVE Published(_, _)
Published(k, form) ==
  IF k = 0 THEN {}
  ELSE StoreJSON(Published(k - 1, form), MintMetadata(<<>>, k - 1), form)

\* the CIDs asked for: those of the stored documents and one of no document
CacheCids == {StorageCid(k, cidForm) : k \in 0..PublishedDocs}

\* ipfsService.fetchMetadata answering: the document stored under the CID
fetchMetadata(pins, cid) ==
  IF \E p \in pins : p.cid = cid
  THEN Return((CHOOSE p \in pins : p.cid = cid).doc)
  ELSE Throw(<<"NotFound">>)

\* metadataCache.get(cid): the entry, or none (undefined)
NoEntry == [st |-> "none"]

CacheGet(cache, cid) == IF cid \in DOMAIN cache THEN cache[cid] ELSE NoEntry

IdleGetter == [pc |-> "idle", cid |-> NoCid, fetched |-> Pending, outcome |-> Pending]

FreshInclusive(cached, t) == cached # NoEntry /\ t - cached.timestamp <= CACHE_TTL

\* line 770: a cached entry younger than CACHE_TTL
Fresh(cached, t) == cached # NoEntry /\ t - cached.timestamp < CACHE_TTL

\* lines 767-773: the call; a fresh entry is returned, otherwise
\* fetchMetadata is issued
GetCall(g, cid) ==
  /\ getter[g].pc \in {"idle", "done"}
  /\ cid \in CacheCids
  /\ getter' = [getter EXCEPT ![g] =
       IF Fresh(CacheGet(metadataCache, cid), now)
       THEN [IdleGetter EXCEPT !.pc = "done", !.cid = cid,
                               !.outcome = Return(CacheGet(metadataCache, cid).data)]
       ELSE [IdleGetter EXCEPT !.pc = "fetch", !.cid = cid]]
  /\ UNCHANGED <<metadataCache, now, sagaVars, codecVars, valVars, walletVars>>

CacheSetOneSlot(cache, cid, fetched, t) ==
  IF IsThrow(fetched) THEN cache
  ELSE [c \in DOMAIN cache \cup {cid} |-> [data |-> fetched.value, timestamp |-> t]]

\* line 776: metadataCache.set(cid, ...), reached only when the fetch resolved
CacheSet(cache, cid, fetched, t) ==
  IF IsThrow(fetched) THEN cache
  ELSE [c \in DOMAIN cache \cup {cid} |->
          IF c = cid THEN [data |-> fetched.value, timestamp |-> t] ELSE cache[c]]

GetResultNoCatch(fetched) ==
  IF IsThrow(fetched) THEN fetched ELSE Return(fetched.value)

\* lines 774-784: the try block returns the metadata, the catch returns null
GetResult(fetched) ==
  IF IsThrow(fetched) THEN Return(Null) ELSE Return(fetched.value)

\* lines 775-784 once fetchMetadata has answered
AfterFetch(g, fetched) ==
  /\ metadataCache' = CacheSet(metadataCache, getter[g].cid, fetched, now)
  /\ getter' = [getter EXCEPT ![g] = [@ EXCEPT !.pc = "done", !.fetched = fetched,
                                               !.outcome = GetResult(fetched)]]
  /\ UNCHANGED <<now, sagaVars, codecVars, valVars, walletVars>>

\* the storage answers: the document, or NotFound
FetchAnswered(g) ==
  /\ getter[g].pc = "fetch"
  /\ AfterFetch(g, fetchMetadata(pinned, getter[g].cid))

\* the request fails on its way
FetchFails(g) ==
  /\ getter[g].pc = "fetch"
  /\ AfterFetch(g, Throw(<<"NetworkError">>))

\* time passes
Tick ==
  /\ now < MaxTicks * ClockStep
  /\ now' = now + ClockStep
  /\ UNCHANGED <<metadataCache, getter, sagaVars, codecVars, valVars, walletVars>>

\* start values of the cache when it is not in use
CacheIdle ==
  /\ metadataCache = [c \in {} |-> NoEntry]
  /\ now = 0
  /\ getter = [g \in Getters |-> IdleGetter]

(***************************************************************************)
(* usePeraWallet: one instance of the hook over peraWalletService.  The    *)
(* hook's state values are what useState holds; a render hands them to the *)
(* callbacks it creates.  A step is what runs between two awaits; the      *)
(* service answers a request by committing its state, emitting its event   *)
(* to the subscribed handlers and resolving the promise the hook awaits.   *)
(***************************************************************************)
\* null, among texts
None == "null"

Accounts  == {"ACCOUNT_A", "ACCOUNT_B"}
Platforms == {"mobile", "web"}

\* peraWalletService.getWalletState()
WalletDisconnected == [isConnected |-> FALSE, connectedAccount |-> None, platform |-> None]
WalletConnected(account, platform) ==
  [isConnected |-> TRUE, connectedAccount |-> account, platform |-> platform]

WalletStates ==
  {WalletDisconnected} \cup {WalletConnected(a, p) : a \in Accounts, p \in Platforms}

\* lines 29-33: the initial state values
InitialHook ==
  [isConnected |-> FALSE, isConnecting |-> FALSE, accountAddress |-> None,
   platform |-> None, error |-> None]

\* the concurrent calls of the hook's functions
CallSlots == 1..NCalls

Idle == [op |-> "none"]
Awaiting(op) == [op |-> op]
NoneSettled == [op |-> "none", outcome |-> Pending]
Settled(op, outcome) == [op |-> op, outcome |-> outcome]

\* the error message a catch block stores: err.message
MessageOf(answer) == answer.message[1]

NotConnectedMessage == "Pera Wallet not connected. Please connect your wallet first."

updateStateWithoutPlatform(h, w) ==
  [h EXCEPT !.isConnected = w.isConnected, !.accountAddress = w.connectedAccount]

\* lines 38-44: updateState
updateState(h, w) ==
  [h EXCEPT !.isConnected = w.isConnected, !.accountAddress = w.connectedAccount,
            !.platform = w.platform]

\* a state setter of a component that is not mounted changes nothing
Commit(h) == IF life = "mounted" THEN h ELSE hook

\* lines 153-166: the service emits an event; the handler subscribed to it
\* runs updateState
Emit(event, h, w) == IF event \in subs THEN updateState(h, w) ELSE h

\* lines 149-174: the effect of the first render subscribes the handlers and
\* reads the current state; the callbacks in use are those of the first render
Mount ==
  /\ life = "new"
  /\ life' = "mounted"
  /\ subs' = {"connect", "disconnect", "reconnect"}
  /\ hook' = updateState(InitialHook, wallet)
  /\ closure' = [isConnected |-> InitialHook.isConnected]
  /\ UNCHANGED <<wallet, pending, settled, sagaVars, codecVars, valVars, cacheVars>>

\* lines 177-181: the cleanup of the effect
Unmount ==
  /\ life = "mounted"
  /\ life' = "unmounted"
  /\ subs' = subs \ {"connect", "disconnect", "reconnect"}
  /\ UNCHANGED <<wallet, hook, closure, pending, settled, sagaVars, codecVars, valVars, cacheVars>>

\* a render after a state change: signTransaction is created anew (line 136)
Render ==
  /\ life = "mounted"
  /\ closure.isConnected # hook.isConnected
  /\ closure' = [isConnected |-> hook.isConnected]
  /\ UNCHANGED <<wallet, hook, life, subs, pending, settled, sagaVars, codecVars, valVars, cacheVars>>

\* lines 50-55 and 92-97: connect and reconnectSession up to their await
OpenCall(c, op) ==
  /\ life = "mounted"
  /\ pending[c] = Idle
  /\ hook' = [hook EXCEPT !.isConnecting = TRUE, !.error = None]
  /\ pending' = [pending EXCEPT ![c] = Awaiting(op)]
  /\ UNCHANGED <<wallet, closure, life, subs, settled, sagaVars, codecVars, valVars, cacheVars>>

\* lines 57-67 and 99-111: what follows the await in connect and
\* reconnectSession, given the answer of the service and its state
AfterOpen(h, w, answer) ==
  LET body == IF IsThrow(answer) THEN [h EXCEPT !.error = MessageOf(answer)]
              ELSE IF Len(answer.value) > 0 THEN updateState(h, w)
              ELSE h
  IN  [body EXCEPT !.isConnecting = FALSE]

\* the event the service emits when the request of op has connected
EventOf(op) == IF op = "connect" THEN "connect" ELSE "reconnect"

\* the service connects to an account and answers with it
OpenResolves(c, account, platform) ==
  /\ pending[c].op \in {"connect", "reconnectSession"}
  /\ wallet' = WalletConnected(account, platform)
  /\ hook' = Commit(AfterOpen(Emit(EventOf(pending[c].op), hook, wallet'),
                              wallet', Return(<<account>>)))
  /\ pending' = [pending EXCEPT ![c] = Idle]
  /\ settled' = Settled(pending[c].op, Return("void"))
  /\ UNCHANGED <<closure, life, subs, sagaVars, codecVars, valVars, cacheVars>>

\* the service answers with no account: nothing changed on its side
OpenResolvesEmpty(c) ==
  /\ pending[c].op \in {"connect", "reconnectSession"}
  /\ hook' = Commit(AfterOpen(hook, wallet, Return(<<>>)))
  /\ pending' = [pending EXCEPT ![c] = Idle]
  /\ settled' = Settled(pending[c].op, Return("void"))
  /\ UNCHANGED <<wallet, closure, life, subs, sagaVars, codecVars, valVars, cacheVars>>

\* the service rejects the request: nothing changed on its side
OpenRejects(c) ==
  /\ pending[c].op \in {"connect", "reconnectSession"}
  /\ hook' = Commit(AfterOpen(hook, wallet, Throw(<<"WalletError">>)))
  /\ pending' = [pending EXCEPT ![c] = Idle]
  /\ settled' = Settled(pending[c].op, Return("void"))
  /\ UNCHANGED <<wallet, closure, life, subs, sagaVars, codecVars, valVars, cacheVars>>

\* lines 74-78: disconnect up to its await
DisconnectCall(c) ==
  /\ life = "mounted"
  /\ pending[c] = Idle
  /\ hook' = [hook EXCEPT !.error = None]
  /\ pending' = [pending EXCEPT ![c] = Awaiting("disconnect")]
  /\ UNCHANGED <<wallet, closure, life, subs, settled, sagaVars, codecVars, valVars, cacheVars>>

\* lines 79-85: what follows the await in disconnect
AfterDisconnect(h, w, answer) ==
  IF IsThrow(answer) THEN [h EXCEPT !.error = MessageOf(answer)]
  ELSE updateState(h, w)

\* the service disconnects and answers
DisconnectResolves(c) ==
  /\ pending[c].op = "disconnect"
  /\ wallet' = WalletDisconnected
  /\ hook' = Commit(AfterDisconnect(Emit("disconnect", hook, wallet'), wallet',
                                    Return("void")))
  /\ pending' = [pending EXCEPT ![c] = Idle]
  /\ settled' = Settled("disconnect", Return("void"))
  /\ UNCHANGED <<closure, life, subs, sagaVars, codecVars, valVars, cacheVars>>

DisconnectRejects(c) ==
  /\ pending[c].op = "disconnect"
  /\ hook' = Commit(AfterDisconnect(hook, wallet, Throw(<<"WalletError">>)))
  /\ pending' = [pending EXCEPT ![c] = Idle]
  /\ settled' = Settled("disconnect", Return("void"))
  /\ UNCHANGED <<wallet, closure, life, subs, sagaVars, codecVars, valVars, cacheVars>>

\* the session ends on the wallet's side: the service emits disconnect
WalletDrops ==
  /\ wallet.isConnected
  /\ wallet' = WalletDisconnected
  /\ hook' = Commit(Emit("disconnect", hook, wallet'))
  /\ UNCHANGED <<closure, life, subs, pending, settled, sagaVars, codecVars, valVars, cacheVars>>

\* lines 121-128: signTransaction up to its await, with the isConnected its
\* render captured; when that is false the call throws and the catch at
\* lines 131-135 stores the message and throws again
SignCall(c) ==
  /\ life = "mounted"
  /\ pending[c] = Idle
  /\ IF ~closure.isConnected
     THEN /\ hook' = [hook EXCEPT !.error = NotConnectedMessage]
          /\ settled' = Settled("signTransaction", Throw(<<NotConnectedMessage>>))
          /\ UNCHANGED pending
     ELSE /\ hook' = [hook EXCEPT !.error = None]
          /\ pending' = [pending EXCEPT ![c] = Awaiting("signTransaction")]
          /\ UNCHANGED settled
  /\ UNCHANGED <<wallet, closure, life, subs, sagaVars, codecVars, valVars, cacheVars>>

\* line 130: the service answers with the signed transactions
SignResolves(c) ==
  /\ pending[c].op = "signTransaction"
  /\ pending' = [pending EXCEPT ![c] = Idle]
  /\ settled' = Settled("signTransaction", Return("signedTxns"))
  /\ UNCHANGED <<wallet, hook, closure, life, subs, sagaVars, codecVars, valVars, cacheVars>>

\* lines 131-135: the service rejects; the message is stored, the error thrown
SignRejects(c) ==
  /\ pending[c].op = "signTransaction"
  /\ hook' = Commit([hook EXCEPT !.error = "WalletError"])
  /\ pending' = [pending EXCEPT ![c] = Idle]
  /\ settled' = Settled("signTransaction", Throw(<<"WalletError">>))
  /\ UNCHANGED <<wallet, closure, life, subs, sagaVars, codecVars, valVars, cacheVars>>

\* start values of the wallet and the hook when they are not in use
WalletIdle ==
  /\ wallet = WalletDisconnected
  /\ hook = InitialHook
  /\ closure = [isConnected |-> FALSE]
  /\ life = "new"
  /\ subs = {}
  /\ pending = [c \in CallSlots |-> Idle]
  /\ settled = NoneSettled

(***************************************************************************)
(* The minting saga: createDocumentCertification calls with their file     *)
(* uploads.                                                                *)
(***************************************************************************)
Init == SagaIdle /\ CodecIdle /\ ValIdle /\ CacheIdle /\ WalletIdle

\* the steps of a call after its uploads
MintTail ==
  \/ MetadataUploaded
  \/ MetadataUploadFails
  \/ AssetCreated
  \/ AssetCreateFails
  \/ ReserveUpdated
  \/ ReserveUpdateFails

Next ==
  \/ \E n \in 0..MaxFiles, valid \in BOOLEAN : MintCall(n, valid)
  \/ \E f \in Files : UploadResolves(f)
  \/ \E f \in Files : UploadRejects(f)
  \/ DelayElapsed
  \/ MintTail

Spec == Init /\ [][Next]_vars

(***************************************************************************)
(* Termination: the same calls with collaborators that may stop answering. *)
(* The timer of the pause always fires, and a collaborator that has not    *)
(* gone silent eventually answers; the code sets no timeout of its own on  *)
(* any of its awaits, so nothing else ends a pending call.                 *)
(***************************************************************************)
\* from now on no collaborator answers a pending or later request
GoSilent ==
  /\ ~silent
  /\ silent' = TRUE
  /\ UNCHANGED <<assets, pinned, cidForm, mint, uploads, upd, history, retry,
                 codecVars, valVars, cacheVars, walletVars>>

\* the answers of the collaborators to the requests of a call
Responses ==
  \/ \E f \in Files : UploadResolves(f)
  \/ \E f \in Files : UploadRejects(f)
  \/ MetadataUploadFails
  \/ MetadataUploaded
  \/ AssetCreateFails
  \/ AssetCreated
  \/ ReserveUpdateFails
  \/ ReserveUpdated

NextHang ==
  \/ \E n \in 0..MaxFiles, valid \in BOOLEAN : MintCall(n, valid)
  \/ DelayElapsed
  \/ ~silent /\ Responses
  \/ GoSilent

SpecHang ==
  /\ Init /\ [][NextHang]_vars
  /\ WF_vars(DelayElapsed)
  /\ WF_vars(~silent /\ Responses)

(***************************************************************************)
(* Recovery: updateAssetWithCID calls on the assets the saga leaves        *)
(* behind (the mints here carry no file; the uploads are covered by Spec). *)
(***************************************************************************)
NextRetry ==
  \/ MintCall(0, TRUE)
  \/ MintTail
  \/ \E a \in 1..MaxAssets : RetryCall(a)
  \/ RetryWritten
  \/ RetryWriteFails

SpecRetry == Init /\ [][NextRetry]_vars

(***************************************************************************)
(* Versioning: concurrent updateCertification calls on one asset, the      *)
(* first one minted (the calls may start before it exists).                *)
(***************************************************************************)
NextVersions ==
  \/ Len(assets) = 0 /\ MintCall(0, TRUE)
  \/ MintTail
  \/ \E u \in Updaters : UpdCall(u, 1)
  \/ \E u \in Updaters : UpdRead(u)
  \/ \E u \in Updaters : UpdUploaded(u)
  \/ \E u \in Updaters : UpdUploadFails(u)
  \/ \E u \in Updaters : UpdWritten(u)
  \/ \E u \in Updaters : UpdWriteFails(u)

SpecVersions == Init /\ [][NextVersions]_vars

(***************************************************************************)
(* The codec on its own.                                                   *)
(***************************************************************************)
InitCodec ==
  /\ cidArg \in CidInputs
  /\ addressArg \in AddressInputs
  /\ toAddress = Pending /\ toCid = Pending /\ roundTrip = Pending
  /\ SagaIdle /\ ValIdle /\ CacheIdle /\ WalletIdle

NextCodec ==
  \/ CallFromCidToAddress
  \/ CallFromAddressToCid
  \/ VerifyRoundTrip

SpecCodec == InitCodec /\ [][NextCodec]_vars

(***************************************************************************)
(* The validator on its own.                                               *)
(***************************************************************************)
InitValidate ==
  /\ valAsset \in LookupAnswers
  /\ valFetch \in FetchAnswers
  /\ valResult = Pending
  /\ SagaIdle /\ CodecIdle /\ CacheIdle /\ WalletIdle

NextValidate == CallValidate

SpecValidate == InitValidate /\ [][NextValidate]_vars

(***************************************************************************)
(* The metadata cache: concurrent getCachedMetadata calls over a storage   *)
(* that holds PublishedDocs documents, while time passes.                  *)
(***************************************************************************)
InitCache ==
  /\ cidForm = "v0"
  /\ pinned = Published(PublishedDocs, cidForm)
  /\ assets = <<>>
  /\ mint = IdleMint
  /\ uploads = NoUploads
  /\ upd = [u \in Updaters |-> IdleUpd]
  /\ history = [a \in 1..MaxAssets |-> <<>>]
  /\ retry = IdleRetry
  /\ silent = FALSE
  /\ CacheIdle /\ CodecIdle /\ ValIdle /\ WalletIdle

NextCache ==
  \/ \E g \in Getters, cid \in CacheCids : GetCall(g, cid)
  \/ \E g \in Getters : FetchAnswered(g)
  \/ \E g \in Getters : FetchFails(g)
  \/ Tick

SpecCache == InitCache /\ [][NextCache]_vars

(***************************************************************************)
(* The wallet hook: it is mounted over a service in any state, its         *)
(* functions are called in any order and overlap, it renders at any time   *)
(* after a state change, and it is unmounted at any time.                  *)
(***************************************************************************)
InitWallet ==
  /\ wallet \in WalletStates
  /\ hook = InitialHook
  /\ closure = [isConnected |-> FALSE]
  /\ life = "new"
  /\ subs = {}
  /\ pending = [c \in CallSlots |-> Idle]
  /\ settled = NoneSettled
  /\ SagaIdle /\ CodecIdle /\ ValIdle /\ CacheIdle

NextWallet ==
  \/ Mount
  \/ Unmount
  \/ Render
  \/ \E c \in CallSlots, op \in {"connect", "reconnectSession"} : OpenCall(c, op)
  \/ \E c \in CallSlots, a \in Accounts, p \in Platforms : OpenResolves(c, a, p)
  \/ \E c \in CallSlots : OpenResolvesEmpty(c)
  \/ \E c \in CallSlots : OpenRejects(c)
  \/ \E c \in CallSlots : DisconnectCall(c)
  \/ \E c \in CallSlots : DisconnectResolves(c)
  \/ \E c \in CallSlots : DisconnectRejects(c)
  \/ WalletDrops
  \/ \E c \in CallSlots : SignCall(c)
  \/ \E c \in CallSlots : SignResolves(c)
  \/ \E c \in CallSlots : SignRejects(c)

SpecWallet == InitWallet /\ [][NextWallet]_vars

(***************************************************************************)
(* Properties of the codec (checked under SpecCodec).                      *)
(***************************************************************************)

\* C1: for every CID whose multihash is sha2-256 with a 32-byte digest,
\* whatever its version and codec tag, fromAddressToCid(fromCidToAddress(c))
\* returns exactly c.
C1_RoundTripReturnsCid ==
  (HasSha256Digest32(cidArg) /\ roundTrip # Pending) => roundTrip = Return(cidArg)

\* C7: fromCidToAddress fails with UnsupportedDigest, returns no address and
\* changes no state for every CID whose multihash is not sha2-256 with a
\* 32-byte digest.
C7_UnsupportedDigestFails ==
  [][(HasOtherDigest(cidArg) /\ toAddress' # toAddress)
       => /\ IsThrow(toAddress')
          /\ Cause(toAddress') = "UnsupportedDigest"
          /\ "value" \notin DOMAIN toAddress'
          /\ UNCHANGED <<cidArg, addressArg, toCid, roundTrip, sagaVars, valVars, cacheVars, walletVars>>]_vars

C7_Witness ==
  HasOtherDigest(cidArg) /\ IsThrow(toAddress)

\* C8: fromAddressToCid fails with InvalidChecksum, and returns no CID, for
\* every address whose trailing 4 bytes are not the checksum of its leading
\* 32 bytes.
C8_InvalidChecksumFails ==
  (HasBadChecksum(addressArg) /\ toCid # Pending)
    => /\ IsThrow(toCid)
       /\ Cause(toCid) = "InvalidChecksum"
       /\ "value" \notin DOMAIN toCid

C8_Witness ==
  HasBadChecksum(addressArg) /\ IsThrow(toCid)

(***************************************************************************)
(* Properties of the minting saga (checked under Spec).                    *)
(***************************************************************************)
Issued(calls, op) == \E k \in 1..Len(calls) : calls[k].op = op

\* an outcome that hands the asset id to the caller
CarriesAssetId(outcome, assetId) ==
  \/ IsOk(outcome) /\ outcome.value.assetId = assetId
  \/ IsThrow(outcome) /\ "assetId" \in DOMAIN outcome /\ outcome.assetId = assetId

\* C2: when the reserve update fails after the asset was created, the call
\* ends in a PartialMintFailure carrying the id of that asset; no call that
\* created an asset ends with an outcome without its id.
C2_PartialMintCarriesAssetId ==
  (mint.pc = "done" /\ mint.assetId # 0)
    => /\ CarriesAssetId(mint.outcome, mint.assetId)
       /\ IsThrow(mint.outcome) => Cause(mint.outcome) = "PartialMintFailure"

Frame(asset) == [asset EXCEPT !.reserve = NoAddress]

\* C6: a successful reserve update (of the saga, or run again on its own with
\* the same inputs) leaves the reserve at the address derived from the
\* metadata CID; run on an asset whose reserve already is that address it
\* changes nothing; it never creates an asset nor touches another parameter.
C6_ReserveUpdateIdempotent ==
  [][/\ (mint.pc = "S5" /\ mint'.pc = "done" /\ IsOk(mint'.outcome))
          => assets'[mint.assetId].reserve
               = fromCidToAddress(assets[mint.assetId].url.hash).value
     /\ (retry.pc = "write" /\ retry'.pc = "done" /\ IsOk(retry'.outcome))
          => LET a    == retry.assetId
                 addr == fromCidToAddress(assets[a].url.hash).value
             IN  /\ assets'[a].reserve = addr
                 /\ Len(assets') = Len(assets)
                 /\ \A b \in DOMAIN assets : Frame(assets'[b]) = Frame(assets[b])
                 /\ \A b \in DOMAIN assets \ {a} : assets'[b] = assets[b]
                 /\ (assets[a].reserve = addr => assets' = assets)]_vars

\* the reserve update has succeeded twice on its own on one asset
C6_Witness ==
  /\ retry.pc = "done" /\ IsOk(retry.outcome)
  /\ retry.count = MaxRetries
  /\ assets[retry.assetId].reserve = retry.reserveAddress

(***************************************************************************)
(* Properties of versioning (checked under SpecVersions).                  *)
(***************************************************************************)
\* C4: an updateCertification call that finds the reserve changed since its
\* read fails with VersionConflict and issues no updateAssetReserve.
C4_VersionConflictDetected ==
  \A u \in Updaters :
    upd[u].changed
      => /\ upd[u].pc = "done"
         /\ IsThrow(upd[u].outcome)
         /\ Cause(upd[u].outcome) = "VersionConflict"
         /\ ~Issued(upd[u].calls, "updateAssetReserve")

\* C5: on an asset whose mint completed, the successful updates carry the
\* versions 2, 3, ... in the order they commit, and each one's back-reference
\* is the CID of the version before it (for the first update, the metadata
\* CID of the mint).
C5_VersionChain ==
  \A a \in DOMAIN assets :
    (Len(history[a]) > 0 /\ history[a][1].previousReserve # creatorAddress)
      => \A k \in 1..Len(history[a]) :
           /\ history[a][k].version = k + 1
           /\ history[a][k].previous_cid
                = IF k = 1 THEN assets[a].url.hash ELSE history[a][k - 1].cid

(***************************************************************************)
(* Properties of the validator (checked under SpecValidate).               *)
(***************************************************************************)
SeqHas(seq, e) == \E k \in 1..Len(seq) : seq[k] = e

TotalError    == <<"Asset should have total supply = 1">>
ClawbackError == <<"Asset should have clawback = creator">>

\* C9: the result lists a soulbound error exactly when the total is not 1 or
\* the clawback differs from the creator; clawback # creator makes the result
\* invalid, and an asset with total 1, decimals 0 and clawback = creator (the
\* placeholder reserve included) gets no soulbound error.
C9_SoulboundChecks ==
  (valResult # Pending /\ IsOk(valResult) /\ IsOk(valAsset))
    => LET a    == valAsset.value
           errs == valResult.value.errors
       IN  /\ SeqHas(errs, TotalError) <=> (a.total # 1)
           /\ SeqHas(errs, ClawbackError) <=> (a.clawback # a.creator)
           /\ (a.clawback # a.creator) => ~valResult.value.isValid
           /\ (a.total = 1 /\ a.decimals = 0 /\ a.clawback = a.creator)
                => ~SeqHas(errs, TotalError) /\ ~SeqHas(errs, ClawbackError)

\* a validated asset whose clawback is not its creator
C9_Witness ==
  /\ valResult # Pending /\ IsOk(valAsset)
  /\ valAsset.value.clawback = otherAddress
  /\ valAsset.value.total = 1
  /\ valAsset.value.reserve = creatorAddress
  /\ SeqHas(valResult.value.errors, ClawbackError)

\* C10: validateCertification always returns a result, whatever fails among
\* the lookup, the codec and the fetch; after a failed lookup the result is
\* invalid, has exactly one error and null assetInfo, metadataInfo, cidInfo.
C10_NeverRaises ==
  (valResult # Pending)
    => /\ IsOk(valResult)
       /\ DOMAIN valResult.value
            = {"isValid", "errors", "warnings", "assetInfo", "metadataInfo", "cidInfo"}
       /\ IsThrow(valAsset)
            => /\ ~valResult.value.isValid
               /\ Len(valResult.value.errors) = 1
               /\ valResult.value.assetInfo = Null
               /\ valResult.value.metadataInfo = Null
               /\ valResult.value.cidInfo = Null

\* a validation whose lookup failed
C10_Witness ==
  valResult # Pending /\ IsThrow(valAsset) /\ IsOk(valResult)

\* the entries of errors the conversion check adds
IsConversionError(e) ==
  e[1] \in {"Invalid CID conversion", "CID <-> Address conversion mismatch"}

\* C22: a result is valid only if the reserve decoded to a CID and that CID
\* encodes back to the very same reserve address; a codec failure or a
\* different re-encoding adds an entry to errors and sets conversionMatch to
\* false, and the checks after it (the metadata behind the URL) still run.
C22_ConversionMatch ==
  (valResult # Pending /\ IsOk(valResult) /\ IsOk(valAsset))
    => LET a         == valAsset.value
           result    == valResult.value
           decoded   == fromAddressToCid(a.reserve)
           reencoded == IF IsThrow(decoded) THEN decoded
                        ELSE fromCidToAddress(decoded.value)
           match     == IsOk(reencoded) /\ reencoded.value = a.reserve
           meta      == MetadataCheck(a, valFetch)
       IN  /\ result.isValid => match
           /\ result.cidInfo.conversionMatch <=> match
           /\ ~match => \E k \in 1..Len(result.errors) :
                          IsConversionError(result.errors[k])
           /\ result.metadataInfo = meta.metadataInfo
           /\ result.warnings = meta.warnings
           /\ \A k \in 1..Len(meta.errors) : SeqHas(result.errors, meta.errors[k])

\* an otherwise sound asset whose reserve does not decode (bad checksum): the
\* conversion failed and the metadata was fetched all the same
C22_Witness ==
  /\ valResult # Pending /\ IsOk(valAsset)
  /\ valAsset.value.total = 1 /\ valAsset.value.clawback = creatorAddress
  /\ IsThrow(fromAddressToCid(valAsset.value.reserve))
  /\ valAsset.value.reserve # NoAddress
  /\ ~valResult.value.cidInfo.conversionMatch
  /\ ~valResult.value.isValid
  /\ Len(valResult.value.errors) = 1
  /\ valResult.value.metadataInfo = [name |-> "Certificazione", description |-> "Documento"]

(***************************************************************************)
(* Further properties of the minting saga (checked under Spec).            *)
(***************************************************************************)
\* an address text: 58 symbols of the base32 alphabet A-Z2-7 (numbered 0..31)
IsAddressText(a) ==
  /\ Len(a) = ALGORAND_ADDRESS_LENGTH
  /\ \A k \in 1..Len(a) : a[k] \in 0..31

\* C11: every successful createDocumentCertification returns a MintingResult
\* with a positive asset id, the metadata URL ipfs://<metadata hash>, a final
\* reserve address of 58 base32 symbols equal to fromCidToAddress(metadata
\* hash), and exactly one file hash per input file.
C11_MintingResultShape ==
  (mint.pc = "done" /\ IsOk(mint.outcome))
    => LET result == mint.outcome.value
       IN  /\ result.assetId > 0
           /\ result.metadataUrl = IpfsUrl(result.ipfsHashes.metadata)
           /\ IsAddressText(result.finalReserveAddress)
           /\ fromCidToAddress(result.ipfsHashes.metadata)
                = Return(result.finalReserveAddress)
           /\ Len(result.ipfsHashes.files) = mint.nFiles
           /\ \A f \in 1..mint.nFiles :
                Cardinality({k \in 1..Len(result.ipfsHashes.files) :
                               result.ipfsHashes.files[k] = f}) = 1

\* a successful call with two files
C11_Witness ==
  /\ mint.pc = "done" /\ IsOk(mint.outcome)
  /\ mint.nFiles = 2
  /\ Len(mint.outcome.value.ipfsHashes.files) = 2
  /\ mint.outcome.value.assetId = 1

\* the positions of the calls of one operation in a call log
CallsOf(calls, op) == {k \in 1..Len(calls) : calls[k].op = op}

\* ceil(n / BATCH_SIZE)
BatchCount(n) == (n + BATCH_SIZE - 1) \div BATCH_SIZE

\* C12: n files are uploaded in ceil(n/3) batches, every batch but the last
\* of 3 files, every file exactly once; the pause is taken only between two
\* consecutive batches, never after the last one.
C12_BatchesOfThree ==
  LET calls   == mint.calls
      n       == mint.nFiles
      ups     == CallsOf(calls, "uploadFile")
      delays  == CallsOf(calls, "setTimeout")
      batches == {calls[k].batch : k \in ups}
      InBatch(b) == {k \in ups : calls[k].batch = b}
  IN  /\ \A k \in ups : calls[k].arg \in 1..n
      /\ \A f \in 1..n : Cardinality({k \in ups : calls[k].arg = f}) <= 1
      /\ \A b \in batches :
           /\ Cardinality(InBatch(b)) <= BATCH_SIZE
           /\ (\E later \in batches : later > b) => Cardinality(InBatch(b)) = BATCH_SIZE
      /\ \A d \in delays :
           /\ d > 1 /\ calls[d - 1].op = "uploadFile"
           /\ calls[d - 1].arg < n
           /\ d < Len(calls) => /\ calls[d + 1].op = "uploadFile"
                                /\ calls[d + 1].batch = calls[d - 1].batch + 1
      /\ Issued(calls, "uploadJSON")
           => /\ Cardinality(batches) = BatchCount(n)
              /\ \A f \in 1..n : Cardinality({k \in ups : calls[k].arg = f}) = 1

\* 7 files went up in batches of 3, 3 and 1 with two pauses
C12_Witness ==
  /\ mint.nFiles = 2 * BATCH_SIZE + 1
  /\ Issued(mint.calls, "uploadJSON")
  /\ Cardinality(CallsOf(mint.calls, "setTimeout")) = 2
  /\ Cardinality({k \in CallsOf(mint.calls, "uploadFile") : mint.calls[k].batch = 2}) = 1

\* C14: when the validation of step 1 fails, the call fails with a
\* ValidationError and has issued no call to any collaborator: no upload was
\* started, nothing was stored and no asset was created.
C14_ValidationFailsBeforeAnyCall ==
  (mint.pc = "done" /\ IsThrow(mint.outcome) /\ Cause(mint.outcome) = "ValidationError")
    => /\ mint.calls = <<>>
       /\ \A f \in Files : uploads[f] = "todo"
       /\ mint.assetId = 0 /\ mint.metadataHash = NoCid

\* a call with two files that failed validation
C14_Witness ==
  /\ mint.pc = "done" /\ mint.nFiles = 2
  /\ mint.outcome = Throw(<<"ValidationError">>)
  /\ assets = <<>> /\ pinned = {}

\* C17: within one call the saga order holds: createAsset is issued only
\* after every file upload and the metadata upload have succeeded and the
\* reserve address has been derived; updateAssetReserve is issued only after
\* createAsset returned an asset id, and for that id; createAsset is issued
\* at most once.
C17_SagaOrder ==
  LET calls   == mint.calls
      creates == CallsOf(calls, "createAsset")
      updates == CallsOf(calls, "updateAssetReserve")
  IN  /\ Cardinality(creates) <= 1
      /\ \A c \in creates :
           /\ \A f \in 1..mint.nFiles :
                /\ uploads[f] = "ok"
                /\ \E k \in 1..(c - 1) : calls[k] = UploadCall(f, (f - 1) \div BATCH_SIZE)
           /\ \E k \in 1..(c - 1) : calls[k].op = "uploadJSON"
           /\ \E p \in pinned : p.cid = mint.metadataHash
           /\ fromCidToAddress(mint.metadataHash) = Return(mint.reserveAddress)
      /\ \A w \in updates :
           /\ \E c \in creates : c < w
           /\ mint.assetId \in DOMAIN assets
           /\ calls[w].arg = mint.assetId

\* a call with two files has issued createAsset and then updateAssetReserve
C17_Witness ==
  /\ mint.pc = "S5" /\ mint.nFiles = 2
  /\ Issued(mint.calls, "createAsset")
  /\ mint.calls[Len(mint.calls)] = Call("updateAssetReserve", 1)

\* C18: at every moment of a call, the asset it created has total 1,
\* decimals 0, clawback = creator and a URL naming the metadata CID, and its
\* reserve is the creator address (the placeholder) or the address derived
\* from that CID; once the call has returned a MintingResult the reserve is
\* the derived address, and decoding it with fromAddressToCid yields the CID
\* the URL names.
C18_CreatedAssetAnchored ==
  (mint.assetId # 0)
    => LET asset   == assets[mint.assetId]
           derived == fromCidToAddress(mint.metadataHash)
       IN  /\ asset.total = 1 /\ asset.decimals = 0
           /\ asset.clawback = asset.creator
           /\ asset.url = IpfsUrl(mint.metadataHash)
           /\ IsOk(derived)
           /\ asset.reserve \in {asset.creator, derived.value}
           /\ (mint.pc = "done" /\ IsOk(mint.outcome))
                => /\ asset.reserve = derived.value
                   /\ fromAddressToCid(asset.reserve) = Return(asset.url.hash)

\* the batch a file belongs to
BatchOf(f) == (f - 1) \div BATCH_SIZE

\* C19: no upload of a later batch is started while an upload of an earlier
\* batch is still in flight, and once an upload has failed no upload of any
\* later batch is ever started.
C19_BatchesDoNotOverlap ==
  \A f, g \in Files :
    (BatchOf(f) < BatchOf(g))
      => /\ uploads[f] = "inflight" => uploads[g] = "todo"
         /\ uploads[f] = "failed" => uploads[g] = "todo"

\* 7 files: the first batch is up, file 4 has failed while file 5 is still in
\* flight, and file 7 of the last batch was never started
C19_Witness ==
  /\ mint.nFiles = 2 * BATCH_SIZE + 1
  /\ \A f \in 1..BATCH_SIZE : uploads[f] = "ok"
  /\ uploads[BATCH_SIZE + 1] = "failed"
  /\ uploads[BATCH_SIZE + 2] = "inflight"
  /\ uploads[2 * BATCH_SIZE + 1] = "todo"

(***************************************************************************)
(* Termination of the minting saga (checked under SpecHang).               *)
(***************************************************************************)
\* C13: no createDocumentCertification call blocks for ever: even when a
\* collaborator never answers, a call in progress eventually ends, with a
\* result or with a failure.
C13_CallTerminates ==
  (mint.pc \notin {"idle", "done"}) ~> (mint.pc = "done")

(***************************************************************************)
(* Further properties of the updates (checked under SpecVersions).         *)
(***************************************************************************)
\* C15: updateCertification never creates an asset: no step of a call issues
\* createAsset or changes the set of asset ids, and total, decimals, creator
\* and clawback of every asset stay as they were.
C15_UpdateCreatesNoAsset ==
  [][(upd' # upd)
       => /\ \A u \in Updaters : ~Issued(upd'[u].calls, "createAsset")
          /\ DOMAIN assets' = DOMAIN assets
          /\ \A a \in DOMAIN assets :
               /\ assets'[a].total = assets[a].total
               /\ assets'[a].decimals = assets[a].decimals
               /\ assets'[a].creator = assets[a].creator
               /\ assets'[a].clawback = assets[a].clawback]_vars

\* an update went through: the reserve of asset 1 is the one it wrote
C15_Witness ==
  \E u \in Updaters :
    /\ upd[u].pc = "done" /\ IsOk(upd[u].outcome)
    /\ Issued(upd[u].calls, "updateAssetReserve")
    /\ Len(assets) = 1
    /\ assets[1].reserve = upd[u].newReserveAddress
    /\ assets[1].total = 1 /\ assets[1].clawback = creatorAddress

(***************************************************************************)
(* Properties of the metadata cache (checked under SpecCache).             *)
(***************************************************************************)
\* C16: getCachedMetadata never raises; a call whose fetch failed returns
\* none and leaves the cache as it was.
C16_FailedFetchReturnsNone ==
  [][\A g \in Getters :
       (getter'[g] # getter[g] /\ getter'[g].pc = "done")
         => /\ ~IsThrow(getter'[g].outcome)
            /\ IsThrow(getter'[g].fetched)
                 => /\ getter'[g].outcome = Return(Null)
                    /\ metadataCache' = metadataCache]_vars

\* a call found a stale entry, its fetch failed, and the entry is still there
C16_Witness ==
  \E g \in Getters :
    /\ getter[g].pc = "done"
    /\ IsThrow(getter[g].fetched)
    /\ getter[g].outcome = Return(Null)
    /\ CacheGet(metadataCache, getter[g].cid) # NoEntry
    /\ ~Fresh(CacheGet(metadataCache, getter[g].cid), now)

\* C20: concurrent calls that populate the same CID store the same document:
\* the data cached under a CID never changes to another document, and all
\* calls that return a document for a CID return the same one.
C20_SameDocumentPerCid ==
  /\ [](\A g, h \in Getters :
          (/\ getter[g].pc = "done" /\ getter[h].pc = "done"
           /\ getter[g].cid = getter[h].cid
           /\ getter[g].outcome # Return(Null) /\ getter[h].outcome # Return(Null))
            => getter[g].outcome = getter[h].outcome)
  /\ [][\A cid \in DOMAIN metadataCache :
          /\ cid \in DOMAIN metadataCache'
          /\ metadataCache'[cid].data = metadataCache[cid].data]_vars

\* two calls missed the same CID, both fetched, both stored
C20_Witness ==
  \E g, h \in Getters :
    /\ g # h
    /\ getter[g].pc = "done" /\ getter[h].pc = "done"
    /\ getter[g].cid = getter[h].cid
    /\ IsOk(getter[g].fetched) /\ IsOk(getter[h].fetched)
    /\ metadataCache[getter[g].cid].data = getter[h].outcome.value

\* C21: a call returns the cached entry, without a fetch, exactly when the
\* entry exists and its age is below CACHE_TTL; on a miss or a stale entry
\* (age >= CACHE_TTL) it fetches from storage, and when the fetch succeeds
\* it stores the fetched document with the current time and returns it.
C21_ReadThroughWithTtl ==
  [][\A g \in Getters :
       LET cid    == getter'[g].cid
           cached == CacheGet(metadataCache, cid)
           hit    == cached # NoEntry /\ now - cached.timestamp < CACHE_TTL
       IN  /\ (getter[g].pc \in {"idle", "done"} /\ getter'[g] # getter[g])
                => IF hit
                   THEN /\ getter'[g].pc = "done"
                        /\ getter'[g].fetched = Pending
                        /\ getter'[g].outcome = Return(cached.data)
                   ELSE /\ getter'[g].pc = "fetch"
                        /\ getter'[g].outcome = Pending
           /\ (getter[g].pc = "fetch" /\ getter'[g].pc = "done"
                 /\ IsOk(getter'[g].fetched))
                => /\ getter'[g].fetched = fetchMetadata(pinned, cid)
                   /\ cid \in DOMAIN metadataCache'
                   /\ metadataCache'[cid] = [data |-> getter'[g].fetched.value,
                                             timestamp |-> now]
                   /\ getter'[g].outcome = Return(getter'[g].fetched.value)]_vars

\* one call was served from the cache, and another found the entry of age
\* CACHE_TTL or more and stored the document again
C21_Witness ==
  \E g, h \in Getters :
    /\ getter[g].pc = "done" /\ getter[g].fetched = Pending
    /\ IsOk(getter[g].outcome)
    /\ getter[h].pc = "done" /\ IsOk(getter[h].fetched)
    /\ getter[h].cid = getter[g].cid
    /\ metadataCache[getter[h].cid].timestamp >= CACHE_TTL

(***************************************************************************)
(* Properties of the wallet hook (checked under SpecWallet).               *)
(***************************************************************************)
\* a step by which a signTransaction call is rejected as not connected
SignRejectedAsNotConnected ==
  /\ settled' = Settled("signTransaction", Throw(<<NotConnectedMessage>>))
  /\ settled' # settled \/ hook'.error # hook.error

\* a step by which a signTransaction call hands the groups to the service
SignForwarded(c) ==
  pending[c] = Idle /\ pending'[c] = Awaiting("signTransaction")

\* the hook holds the state of the service: updateState ran after its last change
StateDelivered ==
  /\ hook.isConnected = wallet.isConnected
  /\ hook.accountAddress = wallet.connectedAccount
  /\ hook.platform = wallet.platform

\* C23: a signTransaction call made while the hook's isConnected is false
\* throws, stores the message in error and does not invoke the service; and
\* whenever the service is connected and its state has been delivered to the
\* hook, a signTransaction call is forwarded to the service, not rejected as
\* not connected.
C23_SignRequiresConnection ==
  [][/\ \A c \in CallSlots : SignForwarded(c) => closure.isConnected
     /\ SignRejectedAsNotConnected
          => /\ ~closure.isConnected
             /\ hook'.error = NotConnectedMessage
             /\ pending' = pending
     /\ (wallet.isConnected /\ StateDelivered) => ~SignRejectedAsNotConnected]_vars

\* a connect or reconnectSession call is awaiting the service
OpenInFlight == \E c \in CallSlots : pending[c].op \in {"connect", "reconnectSession"}

\* C24: isConnecting is true whenever a connect or reconnectSession call is
\* in flight, however such calls interleave, and false once all of them have
\* settled.
C24_ConnectingWhileInFlight ==
  (life = "mounted") => (hook.isConnecting <=> OpenInFlight)

\* a step by which a connect, disconnect or reconnectSession call completes
SessionCallCompleted ==
  \E c \in CallSlots :
    /\ pending[c].op \in {"connect", "disconnect", "reconnectSession"}
    /\ pending'[c] = Idle

\* the state of the hook after the step equals that of the service
StateDeliveredAfter ==
  /\ hook'.isConnected = wallet'.isConnected
  /\ hook'.accountAddress = wallet'.connectedAccount
  /\ hook'.platform = wallet'.platform

\* C25: while the hook is mounted, after each event the service emits (each
\* change of its state) and after each completed connect, disconnect or
\* reconnectSession call, isConnected, accountAddress and platform of the
\* hook equal the state of the service; mounting invokes neither connect nor
\* reconnectSession; after unmount no handler of the hook is subscribed.
C25_HookFollowsService ==
  [][/\ (life = "mounted" /\ life' = "mounted"
           /\ (wallet' # wallet \/ SessionCallCompleted))
          => StateDeliveredAfter
     /\ (life = "new" /\ life' = "mounted")
          => /\ pending' = pending
             /\ wallet' = wallet
             /\ StateDeliveredAfter
     /\ (life' = "unmounted") => subs' = {}]_vars

\* a connect call completed on the web platform and was delivered; the hook
\* was unmounted afterwards
C25_Witness ==
  /\ life = "unmounted" /\ subs = {}
  /\ settled.op = "connect"
  /\ wallet = WalletConnected("ACCOUNT_B", "web")
  /\ StateDelivered

====
